---- MODULE Spec2Model ----
(***************************************************************************)
(* Model of VSR.py (video silence remover): the keep-segment computation   *)
(* compute_keep_segments, the pipeline process_video that drives the       *)
(* external ffprobe / ffmpeg processes, the parse loop of detect_silence,  *)
(* the fade computation of cut_segment, and the Run button with its Worker *)
(* threads.  Each has its own specification: SpecKeep, Spec, SpecParse,    *)
(* SpecCut, SpecGui.                                                       *)
(*                                                                         *)
(* Times are seconds in the program (Python floats).  Here a time is an    *)
(* integer number of ticks of 0.05 second, so 0.05 s is one tick, 0.1 s    *)
(* is two ticks, 2.0 s is forty ticks.  Every value the claims use         *)
(* is a whole number of ticks, and the program only adds, subtracts and    *)
(* compares times, so the integer arithmetic is the program's arithmetic  *)
(* on these values.                                                        *)
(***************************************************************************)
EXTENDS Integers, Sequences, FiniteSets

VARIABLES
    pc,                  \* position of the running call (process_video or a direct call)
    silence_starts,      \* list of silence start times (detect_silence / argument)
    silence_ends,        \* list of silence end times
    duration,            \* total duration (get_video_duration / argument)
    min_segment_length,  \* argument of compute_keep_segments
    margin,              \* argument of compute_keep_segments and of process_video
    segments,            \* value returned by compute_keep_segments
    calls,               \* number of calls of compute_keep_segments made so far
    status,              \* messages handed to status_callback, in order
    tmpdir,              \* the TemporaryDirectory: "absent", "exists" or "removed"
    seg_on_disk,         \* indices idx whose segment_<idx>.mp4 exists in tmpdir
    segment_files,       \* process_video.segment_files, as the list of indices idx
    cut_started,         \* number of extraction processes spawned so far
    cut_results,         \* outcome of each extraction process that has exited
    manifest,            \* the concat list file: "absent", "written" or "removed"
    manifest_list,       \* the paths written to the manifest, as indices idx
    concat_started,      \* number of concatenation processes spawned so far
    concat_results,      \* outcome of the concatenation process, once it exited
    output,              \* whether output_file was produced by this run
    probe,               \* what ffprobe printed: "none" until it ran, then its kind
    cut_args,            \* arguments (start, end, fade_duration) of the last cut_segment call
    cut_filter,          \* the fade part of filter_complex that call built, once built
    stderr_lines,        \* detect_silence: the lines of ffmpeg's diagnostic text
    line_no,             \* detect_silence: number of lines the loop of line 42 has read
    run_button_enabled,  \* VideoCutterGUI.run_button.isEnabled()
    workers,             \* every Worker start_processing created, in order of creation
    finished_queue,      \* finished signals emitted and not yet delivered to the GUI thread
    rejections           \* number of clicks on Run that validation has rejected

keep_vars == <<silence_starts, silence_ends, duration, min_segment_length,
               margin, segments, calls>>

run_vars == <<status, tmpdir, seg_on_disk, segment_files, cut_started,
              cut_results, manifest, manifest_list, concat_started,
              concat_results, output, probe>>

cut_vars == <<cut_args, cut_filter>>

parse_vars == <<stderr_lines, line_no>>

gui_vars == <<run_button_enabled, workers, finished_queue, rejections>>

vars == <<pc, keep_vars, run_vars, cut_vars, parse_vars, gui_vars>>

-----------------------------------------------------------------------------
(* Bounds of the model *)

MaxTime == 4       \* enumerated times range over 0..MaxTime ticks
MaxLen == 2        \* enumerated silence lists have at most MaxLen entries
MaxMargin == 3     \* enumerated margins range over 0..MaxMargin ticks
MaxMinSeg == 2     \* enumerated min_segment_length ranges over 0..MaxMinSeg ticks
MaxFade == 3       \* enumerated fade_duration ranges over 0..MaxFade ticks
MaxLines == 3      \* enumerated diagnostic texts have at most MaxLines lines
MaxRuns == 3       \* the Run button is clicked at most MaxRuns times

(* Program constants *)

DefaultMinSegmentLength == 2       \* min_segment_length=0.1 (VSR.py line 53)

-----------------------------------------------------------------------------
(* Helpers: Python's min, max and zip *)

\* float('inf') and float('nan') (line 22 accepts both texts): a value above
\* and a value below every time of the model.  Only duration can hold them.
Infinity == 1000000

NaN == -1000000

\* min(a, b) returns a unless b < a, and no comparison with nan is true.
Min(a, b) == IF b # NaN /\ b < a THEN b ELSE a

Max(a, b) == IF a > b THEN a ELSE b

\* zip(silence_starts, silence_ends) stops at the shorter list
ZipLen(ss, se) == Min(Len(ss), Len(se))

-----------------------------------------------------------------------------
(* compute_keep_segments, lines 53-81 *)

\* Mutant of KeepLoop: the cursor moves to s_end only when a segment was emitted.
RECURSIVE KeepLoopCursorStuck(_, _, _, _, _, _)
KeepLoopCursorStuck(ss, se, i, current_start, segs, msl) ==
    IF i > ZipLen(ss, se)
    THEN [segments |-> segs, current_start |-> current_start]
    ELSE IF ss[i] - current_start > msl
         THEN KeepLoopCursorStuck(ss, se, i + 1, se[i],
                                  Append(segs, <<current_start, ss[i]>>), msl)
         ELSE KeepLoopCursorStuck(ss, se, i + 1, current_start, segs, msl)

\* Mutant of KeepLoop: a silence shorter than min_segment_length is skipped
\* altogether (no boundary, cursor not moved).
RECURSIVE KeepLoopSkipShortSilence(_, _, _, _, _, _)
KeepLoopSkipShortSilence(ss, se, i, current_start, segs, msl) ==
    IF i > ZipLen(ss, se)
    THEN [segments |-> segs, current_start |-> current_start]
    ELSE IF se[i] - ss[i] < msl
         THEN KeepLoopSkipShortSilence(ss, se, i + 1, current_start, segs, msl)
         ELSE KeepLoopSkipShortSilence(ss, se, i + 1, se[i],
                  IF ss[i] - current_start > msl
                  THEN Append(segs, <<current_start, ss[i]>>)
                  ELSE segs, msl)

\* Mutant of KeepLoop: the cursor moves to s_start instead of s_end.
RECURSIVE KeepLoopCursorAtSilenceStart(_, _, _, _, _, _)
KeepLoopCursorAtSilenceStart(ss, se, i, current_start, segs, msl) ==
    IF i > ZipLen(ss, se)
    THEN [segments |-> segs, current_start |-> current_start]
    ELSE KeepLoopCursorAtSilenceStart(ss, se, i + 1, ss[i],
                  IF ss[i] - current_start > msl
                  THEN Append(segs, <<current_start, ss[i]>>)
                  ELSE segs,
                  msl)

\* Lines 58-63: the for loop over zip(silence_starts, silence_ends), from its
\* i-th pair on, with the loop's two locals; returns them at loop exit.
RECURSIVE KeepLoop(_, _, _, _, _, _)
KeepLoop(ss, se, i, current_start, segs, msl) ==
    IF i > ZipLen(ss, se)
    THEN [segments |-> segs, current_start |-> current_start]
    ELSE KeepLoop(ss, se, i + 1, se[i],
                  IF ss[i] - current_start > msl
                  THEN Append(segs, <<current_start, ss[i]>>)
                  ELSE segs,
                  msl)

\* Lines 58-65: the list before the margin step (line 64 is false when
\* duration is nan).
MarginFreeSegments(ss, se, d, msl) ==
    LET r == KeepLoop(ss, se, 1, 0, <<>>, msl)
    IN  IF d # NaN /\ d - r.current_start > msl
        THEN Append(r.segments, <<r.current_start, d>>)
        ELSE r.segments

\* Mutant of ApplyMargin: the clamps to 0 and to duration are missing.
ApplyMarginNoClamp(segs, d, m) ==
    [i \in 1..Len(segs) |->
        << IF i > 1 THEN segs[i][1] - m ELSE segs[i][1],
           IF i < Len(segs) THEN segs[i][2] + m ELSE segs[i][2] >>]

\* Mutant of ApplyMargin: the margin is taken off the segment instead of added
\* to it (signs swapped).
ApplyMarginShrink(segs, d, m) ==
    [i \in 1..Len(segs) |->
        << IF i > 1 THEN Max(segs[i][1] + m, 0) ELSE segs[i][1],
           IF i < Len(segs) THEN Min(segs[i][2] - m, d) ELSE segs[i][2] >>]

\* Mutant of ApplyMargin: the loop runs over range(len(segments) - 1).
ApplyMarginDropLast(segs, d, m) ==
    [i \in 1..(Len(segs) - 1) |->
        << IF i > 1 THEN Max(segs[i][1] - m, 0) ELSE segs[i][1],
           Min(segs[i][2] + m, d) >>]

\* Lines 69-79: the margin loop (i is 1-based here, 0-based in the code).
ApplyMargin(segs, d, m) ==
    [i \in 1..Len(segs) |->
        << IF i > 1 THEN Max(segs[i][1] - m, 0) ELSE segs[i][1],
           IF i < Len(segs) THEN Min(segs[i][2] + m, d) ELSE segs[i][2] >>]

\* Mutant of compute_keep_segments: the margin step runs for every margin
\* other than 0 ("if margin:" instead of "if margin > 0:").
ComputeKeepMarginUnguarded(ss, se, d, msl, m) ==
    LET segs == MarginFreeSegments(ss, se, d, msl)
    IN  IF m # 0 THEN ApplyMargin(segs, d, m) ELSE segs

\* Lines 53-81.
compute_keep_segments(ss, se, d, msl, m) ==
    LET segs == MarginFreeSegments(ss, se, d, msl)
    IN  IF m > 0 THEN ApplyMargin(segs, d, m) ELSE segs

-----------------------------------------------------------------------------
(* Inputs of the direct calls of compute_keep_segments *)

Times == 0..MaxTime

\* The detector reports its events in stream order (lines 42-50 append them in
\* the order of the text), so each list is non-decreasing.  The two lists are
\* drawn independently: their lengths may differ and a pair need not be valid.
TimeLists ==
    {s \in UNION {[1..n -> Times] : n \in 0..MaxLen} :
        \A i \in 1..(Len(s) - 1) : s[i] <= s[i + 1]}

Input(ss, se, d, msl, m) ==
    [starts |-> ss, ends |-> se, duration |-> d, msl |-> msl, margin |-> m]

\* Scenarios A-E of the specification, in ticks of 0.05 s.
ScenarioA == Input(<<40>>, <<60>>, 200, 2, 0)
ScenarioB == Input(<<>>, <<>>, 100, 2, 0)
ScenarioC == Input(<<0>>, <<100>>, 100, 2, 0)
ScenarioD == Input(<<40>>, <<60>>, 200, 2, 10)
ScenarioE == Input(<<40>>, <<41>>, 80, 2, 0)

Scenarios == {ScenarioA, ScenarioB, ScenarioC, ScenarioD, ScenarioE}

CurrentInput ==
    Input(silence_starts, silence_ends, duration, min_segment_length, margin)

\* The state of process_video's locals and of the file system before a run.
NoRunYet ==
    /\ status = << >>
    /\ tmpdir = "absent"
    /\ seg_on_disk = {}
    /\ segment_files = << >>
    /\ cut_started = 0
    /\ cut_results = << >>
    /\ manifest = "absent"
    /\ manifest_list = << >>
    /\ concat_started = 0
    /\ concat_results = << >>
    /\ output = FALSE
    /\ probe = "none"

\* Line 83: fade_duration=0.1, in ticks.
DefaultFadeDuration == 2

\* Mutant of AdjustedFade2: the fade is never shortened (lines 92-93 missing).
FadeNotShrunk2(segment_length, fade_duration) == 2 * fade_duration

\* Lines 92-93: the fade duration cut_segment uses, doubled so that
\* segment_length / 2 is a whole number: AdjustedFade2 is the fade in half
\* ticks.
AdjustedFade2(segment_length, fade_duration) ==
    IF segment_length < 2 * fade_duration
    THEN segment_length
    ELSE 2 * fade_duration

\* Lines 89-100: the two afade filters of filter_complex, their times in half
\* ticks: afade=t=in:st=0:d=f, afade=t=out:st=segment_length-f:d=f.
FilterComplex(start, end, fade_duration) ==
    LET segment_length == end - start
        f2 == AdjustedFade2(segment_length, fade_duration)
    IN  [fade_in_st2 |-> 0,
         fade_in_d2 |-> f2,
         fade_out_st2 |-> 2 * segment_length - f2,
         fade_out_d2 |-> f2]

CutArgs(start, end, fade_duration) ==
    [start |-> start, end |-> end, fade_duration |-> fade_duration]

NoCutYet ==
    /\ cut_args = CutArgs(0, 0, DefaultFadeDuration)
    /\ cut_filter = << >>

NoParseYet ==
    /\ stderr_lines = << >>
    /\ line_no = 0

\* Lines 179-184 and 236-239: no worker, the Run button enabled.
NoGuiYet ==
    /\ run_button_enabled = TRUE
    /\ workers = << >>
    /\ finished_queue = << >>
    /\ rejections = 0

-----------------------------------------------------------------------------
(* Specification SpecKeep: compute_keep_segments called directly *)

InitKeep ==
    /\ pc = "call"
    /\ \/ /\ silence_starts \in TimeLists
          /\ silence_ends \in TimeLists
          /\ duration \in Times
          /\ min_segment_length \in 0..MaxMinSeg
          /\ margin \in 0..MaxMargin
       \/ \* a negative margin, which line 68 treats as no margin
          /\ silence_starts \in TimeLists
          /\ silence_ends \in TimeLists
          /\ duration \in Times
          /\ min_segment_length = 0
          /\ margin = 0 - 1
       \/ \E s \in Scenarios :
            /\ silence_starts = s.starts
            /\ silence_ends = s.ends
            /\ duration = s.duration
            /\ min_segment_length = s.msl
            /\ margin = s.margin
    /\ segments = <<>>
    /\ calls = 0
    /\ NoRunYet
    /\ NoCutYet
    /\ NoParseYet
    /\ NoGuiYet

\* A call of compute_keep_segments with the arguments of the state.
CallKeep ==
    /\ pc = "call"
    /\ segments' = compute_keep_segments(silence_starts, silence_ends, duration,
                                         min_segment_length, margin)
    /\ pc' = "returned"
    /\ calls' = calls + 1
    /\ UNCHANGED <<silence_starts, silence_ends, duration, min_segment_length, margin>>
    /\ UNCHANGED run_vars
    /\ UNCHANGED cut_vars
    /\ UNCHANGED parse_vars
    /\ UNCHANGED gui_vars

\* A further call with the same report and a larger margin.
CallKeepLargerMargin ==
    /\ pc = "returned"
    /\ \E m2 \in (margin + 1)..MaxMargin :
        /\ margin' = m2
        /\ segments' = compute_keep_segments(silence_starts, silence_ends, duration,
                                             min_segment_length, m2)
    /\ calls' = calls + 1
    /\ UNCHANGED <<pc, silence_starts, silence_ends, duration, min_segment_length>>
    /\ UNCHANGED run_vars
    /\ UNCHANGED cut_vars
    /\ UNCHANGED parse_vars
    /\ UNCHANGED gui_vars

NextKeep == CallKeep \/ CallKeepLargerMargin

SpecKeep == InitKeep /\ [][NextKeep]_vars

-----------------------------------------------------------------------------
(* process_video, lines 133-155, and the functions it calls *)

\* Timestamps of a run, in ticks: multiples of a step one tick longer than the
\* default min_segment_length, up to a horizon long enough for MaxLen silences
\* with a kept segment before, between and after them.
StreamTimes == {(DefaultMinSegmentLength + 1) * t : t \in 0..(2 * MaxLen + 1)}

StreamLists ==
    {s \in UNION {[1..n -> StreamTimes] : n \in 0..MaxLen} :
        \A i \in 1..(Len(s) - 1) : s[i] <= s[i + 1]}

\* What detect_silence can return for a stream of duration d (lines 40-51):
\* the silences of the stream in stream order, each start before its end, and
\* possibly a last silence_start whose silence_end was not reported.
DetectorReports(d) ==
    {r \in [starts : StreamLists, ends : StreamLists] :
        /\ Len(r.ends) <= Len(r.starts)
        /\ Len(r.starts) <= Len(r.ends) + 1
        /\ \A i \in 1..Len(r.ends) : r.starts[i] < r.ends[i] /\ r.ends[i] <= d
        /\ \A i \in 1..(Len(r.starts) - 1) : r.ends[i] <= r.starts[i + 1]
        /\ \A i \in 1..Len(r.starts) : r.starts[i] < d}

\* How an ffmpeg process can end (subprocess.run returns either way, lines 110
\* and 130): exit status 0 with its output file written, or a non-zero exit
\* status with the output file partly written or not written at all.
ProcessOutcomes ==
    {[exit |-> 0, file |-> TRUE],
     [exit |-> 1, file |-> TRUE],
     [exit |-> 1, file |-> FALSE]}

\* A message handed to status_callback.
Msg(kind, text, a, b) == [kind |-> kind, text |-> text, a |-> a, b |-> b]

\* Line 155: status_callback(f"Error: {e}").
ErrorMsg(text) == Msg("error", text, 0, 0)

\* Line 24.
ProbeErrorText == "Failed to get video duration."

\* Line 141.
NoSegmentsText == "No non-silent segments detected. Adjust your threshold or silence duration settings."

\* The text of the OSError subprocess raises when a process cannot be spawned.
SpawnErrorText == "OSError"

\* Mutant of NoSegments: the empty list is not checked for.
NoSegmentsUnchecked(segs) == FALSE

\* Line 140: if not segments.
NoSegments(segs) == Len(segs) = 0

\* Mutant of TmpDirCleanup: the directory's files are left behind.
TmpDirCleanupLeak(files) == files

\* Line 145: leaving the with block (normally or by an exception) removes the
\* temporary directory and everything in it; the files left of `files`.
TmpDirCleanup(files) == {}

\* Mutant of ManifestLines: the clip paths are written last first.
ManifestLinesReversed(files) ==
    [k \in 1..Len(files) |-> files[Len(files) + 1 - k]]

\* Lines 119-120: one "file '<seg>'" line per entry of segment_files, in the
\* order of the list.
ManifestLines(files) == [k \in 1..Len(files) |-> files[k]]

Init ==
    /\ pc = "probe"
    /\ silence_starts = << >>
    /\ silence_ends = << >>
    /\ duration = 0
    /\ min_segment_length = DefaultMinSegmentLength
    /\ margin \in 0..MaxMargin
    /\ segments = << >>
    /\ calls = 0
    /\ NoRunYet
    /\ NoCutYet
    /\ NoParseYet
    /\ NoGuiYet

\* What ffprobe can print for the duration (line 20): a number of the
\* timeline, a negative number, "inf", "nan", or text that is no number (empty
\* text, "N/A").
ProbeOutputs ==
    {[kind |-> "number", value |-> d] : d \in StreamTimes}
    \cup {[kind |-> "negative", value |-> 0 - (DefaultMinSegmentLength + 1)],
          [kind |-> "inf", value |-> Infinity],
          [kind |-> "nan", value |-> NaN],
          [kind |-> "garbage", value |-> 0]}

\* Lines 21-24: float() raises ValueError only for text that is no float
\* literal; "-3.0", "inf" and "nan" are float literals.
FloatAccepts(out) == out.kind # "garbage"

\* The length of the stream the detector reads: the probed duration when it is
\* a time of the stream, else the longest stream of the model.
StreamLength(d) ==
    IF d \in StreamTimes THEN d
    ELSE (DefaultMinSegmentLength + 1) * (2 * MaxLen + 1)

\* Lines 135-136 with get_video_duration (13-24): ffprobe prints its output, or
\* cannot be spawned; lines 154-155 on an exception.
GetVideoDuration ==
    /\ pc = "probe"
    /\ \/ \E out \in ProbeOutputs :
            /\ probe' = out.kind
            /\ IF FloatAccepts(out)
               THEN /\ duration' = out.value
                    /\ status' = Append(status, Msg("duration", "", out.value, 0))
                    /\ pc' = "detect"
               ELSE /\ status' = Append(status, ErrorMsg(ProbeErrorText))
                    /\ pc' = "done"
                    /\ UNCHANGED duration
       \/ /\ probe' = "spawn_error"
          /\ status' = Append(status, ErrorMsg(SpawnErrorText))
          /\ pc' = "done"
          /\ UNCHANGED duration
    /\ UNCHANGED <<silence_starts, silence_ends, min_segment_length, margin,
                   segments, calls>>
    /\ UNCHANGED <<tmpdir, seg_on_disk, segment_files, cut_started, cut_results,
                   manifest, manifest_list, concat_started, concat_results, output>>
    /\ UNCHANGED cut_vars
    /\ UNCHANGED parse_vars
    /\ UNCHANGED gui_vars

\* Line 138 with detect_silence (26-51): the status message, the ffmpeg
\* process and the parse of its diagnostic text.
DetectSilence ==
    /\ pc = "detect"
    /\ \/ \E r \in DetectorReports(StreamLength(duration)) :
            /\ silence_starts' = r.starts
            /\ silence_ends' = r.ends
            /\ status' = Append(status, Msg("detecting", "", 0, 0))
            /\ pc' = "compute"
       \/ /\ status' = status \o << Msg("detecting", "", 0, 0),
                                    ErrorMsg(SpawnErrorText) >>
          /\ pc' = "done"
          /\ UNCHANGED <<silence_starts, silence_ends>>
    /\ UNCHANGED <<duration, min_segment_length, margin, segments, calls>>
    /\ UNCHANGED <<tmpdir, seg_on_disk, segment_files, cut_started, cut_results,
                   manifest, manifest_list, concat_started, concat_results, output>>
    /\ UNCHANGED probe
    /\ UNCHANGED cut_vars
    /\ UNCHANGED parse_vars
    /\ UNCHANGED gui_vars

\* Mutant of ComputeSegments: the no-segments error is reported through
\* status_callback and then raised as well, so that the except clause reports
\* it a second time.
ComputeSegmentsReportsTwice ==
    /\ pc = "compute"
    /\ LET segs == compute_keep_segments(silence_starts, silence_ends, duration,
                                         DefaultMinSegmentLength, margin)
       IN  /\ segments' = segs
           /\ calls' = calls + 1
           /\ IF NoSegments(segs)
              THEN /\ status' = status \o << ErrorMsg(NoSegmentsText),
                                              ErrorMsg(NoSegmentsText) >>
                   /\ pc' = "done"
                   /\ UNCHANGED tmpdir
              ELSE /\ status' = Append(status, Msg("found", "", Len(segs), 0))
                   /\ tmpdir' = "exists"
                   /\ pc' = "extract"
    /\ segment_files' = << >>
    /\ UNCHANGED <<silence_starts, silence_ends, duration, min_segment_length, margin>>
    /\ UNCHANGED <<seg_on_disk, cut_started, cut_results, manifest, manifest_list,
                   concat_started, concat_results, output>>
    /\ UNCHANGED probe
    /\ UNCHANGED cut_vars
    /\ UNCHANGED parse_vars
    /\ UNCHANGED gui_vars

\* Lines 139-145: the keep segments, the no-segments error, the "Found"
\* message, segment_files = [] and the creation of the temporary directory.
ComputeSegments ==
    /\ pc = "compute"
    /\ LET segs == compute_keep_segments(silence_starts, silence_ends, duration,
                                         DefaultMinSegmentLength, margin)
       IN  /\ segments' = segs
           /\ calls' = calls + 1
           /\ IF NoSegments(segs)
              THEN /\ status' = Append(status, ErrorMsg(NoSegmentsText))
                   /\ pc' = "done"
                   /\ UNCHANGED tmpdir
              ELSE /\ status' = Append(status, Msg("found", "", Len(segs), 0))
                   /\ tmpdir' = "exists"
                   /\ pc' = "extract"
    /\ segment_files' = << >>
    /\ UNCHANGED <<silence_starts, silence_ends, duration, min_segment_length, margin>>
    /\ UNCHANGED <<seg_on_disk, cut_started, cut_results, manifest, manifest_list,
                   concat_started, concat_results, output>>
    /\ UNCHANGED probe
    /\ UNCHANGED cut_vars
    /\ UNCHANGED parse_vars
    /\ UNCHANGED gui_vars

\* Lines 146-148 and cut_segment up to the spawn of ffmpeg (88-110): the index
\* idx of the loop is len(segment_files).  If the process cannot be spawned the
\* exception leaves the with block (cleanup) and reaches lines 154-155.
CutSegmentStart ==
    /\ pc = "extract"
    /\ Len(segment_files) < Len(segments)
    /\ LET seg == segments[Len(segment_files) + 1]
           cutting == Msg("cutting", "", seg[1], seg[2])
       IN  /\ cut_args' = CutArgs(seg[1], seg[2], DefaultFadeDuration)
           /\ cut_filter' = <<FilterComplex(seg[1], seg[2], DefaultFadeDuration)>>
           /\ \/ /\ status' = Append(status, cutting)
                 /\ cut_started' = cut_started + 1
                 /\ pc' = "cutting"
                 /\ UNCHANGED <<tmpdir, seg_on_disk>>
              \/ /\ status' = status \o << cutting, ErrorMsg(SpawnErrorText) >>
                 /\ tmpdir' = "removed"
                 /\ seg_on_disk' = TmpDirCleanup(seg_on_disk)
                 /\ pc' = "done"
                 /\ UNCHANGED cut_started
    /\ UNCHANGED keep_vars
    /\ UNCHANGED <<segment_files, cut_results, manifest, manifest_list,
                   concat_started, concat_results, output>>
    /\ UNCHANGED probe
    /\ UNCHANGED parse_vars
    /\ UNCHANGED gui_vars

\* Lines 110 and 149: the ffmpeg process of segment idx exits; its exit status
\* is not looked at, and seg_file is appended to segment_files.
CutSegmentExit ==
    /\ pc = "cutting"
    /\ \E outcome \in ProcessOutcomes :
        /\ cut_results' = Append(cut_results, outcome)
        /\ seg_on_disk' = IF outcome.file
                          THEN seg_on_disk \cup {Len(segment_files)}
                          ELSE seg_on_disk
    /\ segment_files' = Append(segment_files, Len(segment_files))
    /\ pc' = "extract"
    /\ UNCHANGED keep_vars
    /\ UNCHANGED <<status, tmpdir, cut_started, manifest, manifest_list,
                   concat_started, concat_results, output>>
    /\ UNCHANGED probe
    /\ UNCHANGED cut_vars
    /\ UNCHANGED parse_vars
    /\ UNCHANGED gui_vars

\* Line 152 and concat_segments_without_crossfade up to the spawn of ffmpeg
\* (116-130): the status message and the manifest, written outside the
\* temporary directory.  If the process cannot be spawned the exception skips
\* line 131, leaves the with block (cleanup) and reaches lines 154-155.
ConcatStart ==
    /\ pc = "extract"
    /\ Len(segment_files) = Len(segments)
    /\ manifest' = "written"
    /\ manifest_list' = ManifestLines(segment_files)
    /\ \/ /\ status' = Append(status, Msg("concatenating", "", 0, 0))
          /\ concat_started' = concat_started + 1
          /\ pc' = "concatenating"
          /\ UNCHANGED <<tmpdir, seg_on_disk>>
       \/ /\ status' = status \o << Msg("concatenating", "", 0, 0),
                                    ErrorMsg(SpawnErrorText) >>
          /\ tmpdir' = "removed"
          /\ seg_on_disk' = TmpDirCleanup(seg_on_disk)
          /\ pc' = "done"
          /\ UNCHANGED concat_started
    /\ UNCHANGED keep_vars
    /\ UNCHANGED <<segment_files, cut_started, cut_results, concat_results, output>>
    /\ UNCHANGED probe
    /\ UNCHANGED cut_vars
    /\ UNCHANGED parse_vars
    /\ UNCHANGED gui_vars

\* Lines 130-131, the end of the with block and line 153: the concat process
\* exits (with status 0 only if every listed clip exists), its exit status is
\* not looked at, the manifest is removed, the temporary directory is removed
\* and "Processing complete" is reported.
ConcatExit ==
    /\ pc = "concatenating"
    /\ \E outcome \in ProcessOutcomes :
        /\ outcome.exit = 0 =>
              \A i \in 1..Len(manifest_list) : manifest_list[i] \in seg_on_disk
        /\ concat_results' = Append(concat_results, outcome)
        /\ output' = outcome.file
    /\ manifest' = "removed"
    /\ tmpdir' = "removed"
    /\ seg_on_disk' = TmpDirCleanup(seg_on_disk)
    /\ status' = Append(status, Msg("complete", "", 0, 0))
    /\ pc' = "done"
    /\ UNCHANGED keep_vars
    /\ UNCHANGED <<segment_files, cut_started, cut_results, manifest_list,
                   concat_started>>
    /\ UNCHANGED probe
    /\ UNCHANGED cut_vars
    /\ UNCHANGED parse_vars
    /\ UNCHANGED gui_vars

Next ==
    \/ GetVideoDuration
    \/ DetectSilence
    \/ ComputeSegments
    \/ CutSegmentStart
    \/ CutSegmentExit
    \/ ConcatStart
    \/ ConcatExit

Spec == Init /\ [][Next]_vars

-----------------------------------------------------------------------------
(* Specification SpecParse: the parse loop of detect_silence *)

\* A line of the diagnostic text is the marker it contains ("silence_start",
\* "silence_end", or "other" for a line with neither word) and the characters
\* that follow "<marker>: " on it.
DigitChars == <<"0", "1", "2", "3", "4", "5", "6", "7", "8", "9">>

IsDigit(c) == \E i \in 1..Len(DigitChars) : DigitChars[i] = c

DigitValue(c) == (CHOOSE i \in 1..Len(DigitChars) : DigitChars[i] = c) - 1

\* The payloads of the model: "3", "4.5", "3 | silence_duration: 1" (cut after
\* the bar), "-3" (silencedetect prints a negative silence_start for a silence
\* at the head of the stream), and "x".
Payloads ==
    { <<"3">>, <<"4", ".", "5">>, <<"3", " ", "|">>, <<"-", "3">>, <<"x">> }

Lines ==
    [marker : {"silence_start", "silence_end", "other"}, payload : Payloads]

DiagnosticTexts == UNION {[1..n -> Lines] : n \in 0..MaxLines}

RECURSIVE LeadingDigits(_)
\* The number of digits \d+ consumes at the head of s.
LeadingDigits(s) ==
    IF s # << >> /\ IsDigit(Head(s)) THEN 1 + LeadingDigits(Tail(s)) ELSE 0

\* Lines 44 and 48: group 1 of (\d+(\.\d+)?) matched right after "<marker>: ",
\* or the empty text when re.search finds no match.
RegexGroup1(payload) ==
    LET n == LeadingDigits(payload)
        rest == SubSeq(payload, n + 1, Len(payload))
        m == IF Len(rest) >= 2 /\ rest[1] = "." THEN LeadingDigits(Tail(rest)) ELSE 0
    IN  IF n = 0 THEN << >>
        ELSE IF m > 0 THEN SubSeq(payload, 1, n + 1 + m) ELSE SubSeq(payload, 1, n)

RECURSIVE IntValue(_)
IntValue(digits) ==
    IF digits = << >> THEN 0
    ELSE 10 * IntValue(SubSeq(digits, 1, Len(digits) - 1))
         + DigitValue(digits[Len(digits)])

\* Lines 46 and 50: float(m.group(1)), in ticks of 0.05 s (twenty to the
\* second, two to the tenth); the texts of the model have at most one
\* fractional digit.
Float(text) ==
    LET n == LeadingDigits(text)
    IN  20 * IntValue(SubSeq(text, 1, n))
        + (IF Len(text) > n + 1 THEN 2 * DigitValue(text[n + 2]) ELSE 0)

\* Lines 43-46 or 47-50 for one line: the list with the line's entry appended,
\* if the line holds the marker and the pattern matches.
ParsedInto(list, line, marker) ==
    IF line.marker = marker /\ RegexGroup1(line.payload) # << >>
    THEN Append(list, Float(RegexGroup1(line.payload)))
    ELSE list

InitParse ==
    /\ pc = "parse"
    /\ stderr_lines \in DiagnosticTexts
    /\ line_no = 0
    /\ silence_starts = << >>
    /\ silence_ends = << >>
    /\ duration = 0
    /\ min_segment_length = DefaultMinSegmentLength
    /\ margin = 0
    /\ segments = << >>
    /\ calls = 0
    /\ NoRunYet
    /\ NoCutYet
    /\ NoGuiYet

\* Lines 42-50: one iteration of the loop over stderr.splitlines().
ParseLine ==
    /\ pc = "parse"
    /\ line_no < Len(stderr_lines)
    /\ line_no' = line_no + 1
    /\ silence_starts' = ParsedInto(silence_starts, stderr_lines[line_no + 1],
                                    "silence_start")
    /\ silence_ends' = ParsedInto(silence_ends, stderr_lines[line_no + 1],
                                  "silence_end")
    /\ UNCHANGED <<pc, stderr_lines, duration, min_segment_length, margin,
                   segments, calls, run_vars, cut_vars, gui_vars>>

\* Line 51: the loop is over and the two lists are returned.
ParseReturn ==
    /\ pc = "parse"
    /\ line_no = Len(stderr_lines)
    /\ pc' = "parsed"
    /\ UNCHANGED <<keep_vars, run_vars, cut_vars, parse_vars, gui_vars>>

NextParse == ParseLine \/ ParseReturn

SpecParse == InitParse /\ [][NextParse]_vars

-----------------------------------------------------------------------------
(* Specification SpecGui: the Run button, the Worker threads and their     *)
(* finished signals.  The GUI thread runs one handler at a time; a Worker  *)
(* thread runs process_video, whose steps are the exits of the external    *)
(* processes it waits for.                                                 *)

\* The stages of process_video in which it waits for an external process
\* (lines 135, 138, 148, 152).
PipelineStages == <<"probe", "detect", "extract", "concat">>

\* What the entry fields can hold when Run is clicked (lines 244-260).
Entries == [paths_given : BOOLEAN, numbers_parse : BOOLEAN]

\* Lines 250-260: the two validations of start_processing.
ValidationAccepts(e) == e.paths_given /\ e.numbers_parse

\* Line 267: a Worker that start() has not yet scheduled.
NewWorker == [phase |-> "started", stage |-> 0, result |-> "none"]

InitGui ==
    /\ pc = "gui"
    /\ silence_starts = << >>
    /\ silence_ends = << >>
    /\ duration = 0
    /\ min_segment_length = DefaultMinSegmentLength
    /\ margin = 0
    /\ segments = << >>
    /\ calls = 0
    /\ NoRunYet
    /\ NoCutYet
    /\ NoParseYet
    /\ NoGuiYet

\* Mutant of StartProcessing: line 262 (run_button.setEnabled(False)) is
\* missing.
StartProcessingKeepsButton ==
    /\ run_button_enabled
    /\ Len(workers) + rejections < MaxRuns
    /\ \E e \in Entries :
        IF ValidationAccepts(e)
        THEN /\ workers' = Append(workers, NewWorker)
             /\ UNCHANGED <<run_button_enabled, rejections>>
        ELSE /\ rejections' = rejections + 1
             /\ UNCHANGED <<run_button_enabled, workers>>
    /\ UNCHANGED <<pc, keep_vars, run_vars, cut_vars, parse_vars, finished_queue>>

\* Lines 243-270: a click on Run (line 238; a disabled button emits no
\* clicked signal).  A rejected click shows a message box and returns (lines
\* 250-260); an accepted one disables the button and starts a Worker.
StartProcessing ==
    /\ run_button_enabled
    /\ Len(workers) + rejections < MaxRuns
    /\ \E e \in Entries :
        IF ValidationAccepts(e)
        THEN /\ run_button_enabled' = FALSE
             /\ workers' = Append(workers, NewWorker)
             /\ UNCHANGED rejections
        ELSE /\ rejections' = rejections + 1
             /\ UNCHANGED <<run_button_enabled, workers>>
    /\ UNCHANGED <<pc, keep_vars, run_vars, cut_vars, parse_vars, finished_queue>>

\* Lines 170-173: the thread of worker i begins run() and calls process_video.
WorkerRun(i) ==
    /\ workers[i].phase = "started"
    /\ workers' = [workers EXCEPT ![i] = [phase |-> "processing", stage |-> 1,
                                          result |-> "none"]]
    /\ UNCHANGED <<pc, keep_vars, run_vars, cut_vars, parse_vars,
                   run_button_enabled, finished_queue, rejections>>

\* Line 173, process_video (133-155): the external process of the current
\* stage exits (or could not be spawned).  process_video goes on to its next
\* stage, or returns after its last stage, or returns after reporting an error
\* (lines 154-155).
ProcessVideoStep(i) ==
    /\ workers[i].phase = "processing"
    /\ \/ /\ workers[i].stage < Len(PipelineStages)
          /\ workers' = [workers EXCEPT ![i].stage = @ + 1]
       \/ /\ workers[i].stage = Len(PipelineStages)
          /\ workers' = [workers EXCEPT ![i].phase = "returned",
                                        ![i].result = "complete"]
       \/ workers' = [workers EXCEPT ![i].phase = "returned", ![i].result = "error"]
    /\ UNCHANGED <<pc, keep_vars, run_vars, cut_vars, parse_vars,
                   run_button_enabled, finished_queue, rejections>>

\* Mutant of EmitFinished: finished is emitted only when process_video
\* reported completion.
EmitFinishedOnSuccess(i) ==
    /\ workers[i].phase = "returned"
    /\ workers[i].result = "complete"
    /\ workers' = [workers EXCEPT ![i].phase = "emitted"]
    /\ finished_queue' = Append(finished_queue, i)
    /\ UNCHANGED <<pc, keep_vars, run_vars, cut_vars, parse_vars,
                   run_button_enabled, rejections>>

\* Line 174: self.finished.emit() after process_video returned; the signal is
\* queued for the GUI thread (connection of line 269).
EmitFinished(i) ==
    /\ workers[i].phase = "returned"
    /\ workers' = [workers EXCEPT ![i].phase = "emitted"]
    /\ finished_queue' = Append(finished_queue, i)
    /\ UNCHANGED <<pc, keep_vars, run_vars, cut_vars, parse_vars,
                   run_button_enabled, rejections>>

\* Lines 275-276: the GUI thread delivers a queued finished signal.
ProcessingFinished ==
    /\ finished_queue # << >>
    /\ run_button_enabled' = TRUE
    /\ workers' = [workers EXCEPT ![Head(finished_queue)].phase = "finished"]
    /\ finished_queue' = Tail(finished_queue)
    /\ UNCHANGED <<pc, keep_vars, run_vars, cut_vars, parse_vars, rejections>>

WorkerThread == \E i \in 1..Len(workers) :
                    WorkerRun(i) \/ ProcessVideoStep(i) \/ EmitFinished(i)

NextGui == StartProcessing \/ WorkerThread \/ ProcessingFinished

\* A started thread keeps running, every external process exits, and the
\* event loop of the GUI thread delivers every queued signal.  Nothing makes
\* the user click.
SpecGui ==
    /\ InitGui
    /\ [][NextGui]_vars
    /\ WF_vars(WorkerThread)
    /\ WF_vars(ProcessingFinished)

-----------------------------------------------------------------------------
(* Specification SpecCut: cut_segment called directly *)

\* Any start and end (a segment, or end <= start) and any fade_duration >= 0.
InitCut ==
    /\ pc = "cut_call"
    /\ cut_args \in {CutArgs(s, e, f) : s \in Times, e \in Times, f \in 0..MaxFade}
    /\ cut_filter = << >>
    /\ silence_starts = << >>
    /\ silence_ends = << >>
    /\ duration = 0
    /\ min_segment_length = DefaultMinSegmentLength
    /\ margin = 0
    /\ segments = << >>
    /\ calls = 0
    /\ NoRunYet
    /\ NoParseYet
    /\ NoGuiYet

\* Lines 88-100: cut_segment builds filter_complex from its arguments.
CallCutSegment ==
    /\ pc = "cut_call"
    /\ cut_filter' = <<FilterComplex(cut_args.start, cut_args.end,
                                     cut_args.fade_duration)>>
    /\ pc' = "cut_returned"
    /\ UNCHANGED <<cut_args, keep_vars, run_vars, parse_vars, gui_vars>>

NextCut == CallCutSegment

SpecCut == InitCut /\ [][NextCut]_vars

-----------------------------------------------------------------------------
(* Vocabulary of the claims about compute_keep_segments *)

\* A valid silence report: paired positionally, each pair inside the timeline
\* with start < end, pairs in increasing time order and not overlapping.
ValidReport ==
    /\ Len(silence_starts) = Len(silence_ends)
    /\ \A i \in 1..Len(silence_starts) :
          /\ 0 <= silence_starts[i]
          /\ silence_starts[i] < silence_ends[i]
          /\ silence_ends[i] <= duration
    /\ \A i \in 1..(Len(silence_starts) - 1) :
          silence_ends[i] <= silence_starts[i + 1]

Returned == pc = "returned"

WithinTimeline(segs) ==
    \A i \in 1..Len(segs) :
        /\ 0 <= segs[i][1]
        /\ segs[i][1] < segs[i][2]
        /\ segs[i][2] <= duration

StrictlyIncreasingStarts(segs) ==
    \A i \in 1..(Len(segs) - 1) : segs[i][1] < segs[i + 1][1]

NonOverlapping(segs) ==
    \A i \in 1..(Len(segs) - 1) : segs[i][2] <= segs[i + 1][1]

\* The gap after segment i is tiled exactly by the silence intervals j..k, each
\* of them longer than min_segment_length.
GapIsLongSilences(segs, i) ==
    \E j \in 1..Len(silence_starts) : \E k \in j..Len(silence_starts) :
        /\ segs[i][2] = silence_starts[j]
        /\ segs[i + 1][1] = silence_ends[k]
        /\ \A l \in j..(k - 1) : silence_ends[l] = silence_starts[l + 1]
        /\ \A l \in j..k : silence_ends[l] - silence_starts[l] > min_segment_length

\* The gap after segment i runs from the start of a silence interval j to the
\* end of a silence interval k >= j; whatever lies between the silences j..k is
\* a non-silent stretch no longer than min_segment_length.
GapIsSilencesAndShortStretches(segs, i) ==
    \E j \in 1..Len(silence_starts) : \E k \in j..Len(silence_starts) :
        /\ segs[i][2] = silence_starts[j]
        /\ segs[i + 1][1] = silence_ends[k]
        /\ \A l \in j..(k - 1) :
              silence_starts[l + 1] - silence_ends[l] <= min_segment_length

-----------------------------------------------------------------------------
(* C1 *)

\* C1: for a valid silence report (and duration, min_segment_length, margin
\* all >= 0), every interval (start, end) returned by compute_keep_segments
\* satisfies 0 <= start < end <= duration.
C1_IntervalsWithinTimeline ==
    (Returned /\ ValidReport) => WithinTimeline(segments)

\* Witness: a valid report, a margin that made both clamps act (second start
\* clamped to 0, first end clamped to duration).
C1_Witness ==
    /\ Returned /\ ValidReport
    /\ margin > 0
    /\ Len(segments) >= 2
    /\ segments[2][1] = 0
    /\ segments[1][2] = duration
    /\ MarginFreeSegments(silence_starts, silence_ends, duration,
                          min_segment_length)[1][2] + margin > duration

-----------------------------------------------------------------------------
(* C2 *)

\* C2 as claimed: for a valid report the returned starts are strictly
\* increasing for any margin >= 0, and with margin = 0 the intervals do not
\* overlap and every gap between consecutive kept intervals is made of silence
\* intervals that exceeded min_segment_length.
C2_Original ==
    (Returned /\ ValidReport) =>
        /\ StrictlyIncreasingStarts(segments)
        /\ margin = 0 =>
              /\ NonOverlapping(segments)
              /\ \A i \in 1..(Len(segments) - 1) : GapIsLongSilences(segments, i)

\* C2 amended: for a valid report the returned starts are strictly increasing
\* when margin = 0, and also for a margin > 0 smaller than the distance between
\* the first two margin-free starts; with margin = 0 the intervals do not
\* overlap and every gap between consecutive kept intervals runs from the start
\* of a silence interval to the end of the same or a later one, whatever the
\* silences' lengths: the only non-silent time in a gap is stretches no longer
\* than min_segment_length.
C2_Amended ==
    (Returned /\ ValidReport) =>
        LET base == MarginFreeSegments(silence_starts, silence_ends, duration,
                                       min_segment_length)
        IN  /\ margin = 0 =>
                  /\ StrictlyIncreasingStarts(segments)
                  /\ NonOverlapping(segments)
                  /\ \A i \in 1..(Len(segments) - 1) :
                        GapIsSilencesAndShortStretches(segments, i)
            /\ (margin > 0 /\ Len(base) >= 2 /\ margin < base[2][1] - base[1][1])
                  => StrictlyIncreasingStarts(segments)
            /\ Len(base) < 2 => StrictlyIncreasingStarts(segments)

\* Witness: margin = 0, two silences, and one gap that spans both of them.
C2_Witness ==
    /\ Returned /\ ValidReport
    /\ margin = 0
    /\ Len(silence_starts) = 2
    /\ Len(segments) = 2
    /\ segments[1][2] = silence_starts[1]
    /\ segments[2][1] = silence_ends[2]

-----------------------------------------------------------------------------
(* C3 *)

\* A single silence pair lying strictly inside the timeline.
SingleInnerSilence ==
    /\ Len(silence_starts) = 1
    /\ Len(silence_ends) = 1
    /\ 0 < silence_starts[1]
    /\ silence_starts[1] < silence_ends[1]
    /\ silence_ends[1] < duration

\* C3 as claimed: with margin = 0, scenario E returns [(0.0, 4.0)], and a
\* single inner silence pair shorter than min_segment_length (with a stretch
\* longer than min_segment_length on either side of it) yields the one segment
\* (0, duration).
C3_Original ==
    /\ (Returned /\ CurrentInput = ScenarioE) => segments = << <<0, 80>> >>
    /\ (Returned /\ margin = 0 /\ SingleInnerSilence
          /\ silence_ends[1] - silence_starts[1] < min_segment_length
          /\ silence_starts[1] > min_segment_length
          /\ duration - silence_ends[1] > min_segment_length)
        => segments = << <<0, duration>> >>

\* C3 amended: a silence interval splits the timeline whatever its length.
\* Scenario E returns [(0.0, 2.0), (2.05, 4.0)], and with margin = 0 a single
\* inner silence pair (start, end) yields (0, start) if start >
\* min_segment_length, followed by (end, duration) if duration - end >
\* min_segment_length, and never (0, duration).
C3_Amended ==
    /\ (Returned /\ CurrentInput = ScenarioE)
        => segments = << <<0, 40>>, <<41, 80>> >>
    /\ (Returned /\ margin = 0 /\ SingleInnerSilence) =>
        /\ segments =
              (IF silence_starts[1] > min_segment_length
               THEN << <<0, silence_starts[1]>> >> ELSE << >>)
              \o
              (IF duration - silence_ends[1] > min_segment_length
               THEN << <<silence_ends[1], duration>> >> ELSE << >>)
        /\ segments # << <<0, duration>> >>

\* Witness: scenario E has returned.
C3_Witness ==
    /\ Returned
    /\ CurrentInput = ScenarioE
    /\ silence_ends[1] - silence_starts[1] < min_segment_length
    /\ Len(segments) = 2

-----------------------------------------------------------------------------
(* C4 *)

\* C4 as claimed: scenario D (starts=[2.0], ends=[3.0], duration=10.0,
\* min_segment_length=0.1, margin=0.5) returns [(0.0, 1.5), (3.5, 10.0)].
C4_Original ==
    (Returned /\ CurrentInput = ScenarioD)
        => segments = << <<0, 30>>, <<70, 200>> >>

\* C4 amended: scenario D returns [(0.0, 2.5), (2.5, 10.0)]: the margin widens
\* each segment into the silence; the first segment's start and the last
\* segment's end are left unadjusted.
C4_Amended ==
    (Returned /\ CurrentInput = ScenarioD)
        => segments = << <<0, 50>>, <<50, 200>> >>

\* Witness: scenario D has returned its two segments.
C4_Witness ==
    /\ Returned
    /\ CurrentInput = ScenarioD
    /\ Len(segments) = 2
    /\ segments[1][1] = 0
    /\ segments[2][2] = duration

-----------------------------------------------------------------------------
(* C5 *)

\* The cursor reference algorithm, stated position by position: the cursor
\* before pair k is 0 for the first pair and ends[k-1] after it.
RefPairs(ss, se) == IF Len(ss) <= Len(se) THEN Len(ss) ELSE Len(se)

RefCursor(se, k) == IF k = 0 THEN 0 ELSE se[k]

\* What pair k contributes (k = RefPairs + 1 stands for the final interval).
RefPiece(ss, se, d, msl, k) ==
    LET cursor == RefCursor(se, k - 1)
        stop == IF k <= RefPairs(ss, se) THEN ss[k] ELSE d
    IN  IF stop - cursor > msl THEN << <<cursor, stop>> >> ELSE << >>

RECURSIVE RefUpTo(_, _, _, _, _)
RefUpTo(ss, se, d, msl, k) ==
    IF k = 0 THEN << >>
    ELSE RefUpTo(ss, se, d, msl, k - 1) \o RefPiece(ss, se, d, msl, k)

Reference(ss, se, d, msl) == RefUpTo(ss, se, d, msl, RefPairs(ss, se) + 1)

\* C5: with margin = 0 compute_keep_segments returns what the cursor reference
\* algorithm returns (positional pairing up to the shorter list, (cursor,
\* s_start) emitted iff s_start - cursor > min_segment_length, cursor moved to
\* s_end either way, final (cursor, duration) emitted iff duration - cursor >
\* min_segment_length); scenario A gives [(0.0, 2.0), (3.0, 10.0)] and the
\* empty report with duration 5.0 gives [(0.0, 5.0)].
C5_EqualsCursorReference ==
    /\ (Returned /\ margin = 0) =>
          segments = Reference(silence_starts, silence_ends, duration,
                               min_segment_length)
    /\ (Returned /\ CurrentInput = ScenarioA)
          => segments = << <<0, 40>>, <<60, 200>> >>
    /\ (Returned /\ CurrentInput = ScenarioB)
          => segments = << <<0, 100>> >>

\* Witness: lists of different lengths (the extra start is ignored), one pair
\* that emitted nothing but moved the cursor, and a final interval.
C5_Witness ==
    /\ Returned
    /\ margin = 0
    /\ Len(silence_starts) = 2
    /\ Len(silence_ends) = 1
    /\ silence_starts[1] <= min_segment_length
    /\ segments = << <<silence_ends[1], duration>> >>

-----------------------------------------------------------------------------
(* C6 *)

-----------------------------------------------------------------------------
(* Vocabulary of the claims about process_video *)

Done == pc = "done"

ProcessFailed(outcome) == outcome.exit # 0 \/ ~outcome.file

HasStatus(kind) == \E k \in 1..Len(status) : status[k].kind = kind

LastStatusIs(kind) == Len(status) > 0 /\ status[Len(status)].kind = kind

-----------------------------------------------------------------------------
(* C7 *)

\* C7: if the transcoding process of some segment i exited non-zero or
\* produced no output file, the run has failed at that point: when the run is
\* over no process was started for a segment after i, no concatenation process
\* was started, the status sink has received an 'Error: ...' message and
\* never 'Processing complete'.
C7_ExtractionFailureAborts ==
    Done =>
        \A i \in 1..Len(cut_results) :
            ProcessFailed(cut_results[i]) =>
                /\ cut_started = i
                /\ concat_started = 0
                /\ HasStatus("error")
                /\ ~HasStatus("complete")

-----------------------------------------------------------------------------
(* C8 *)

\* C8: if the concatenation process exited non-zero or produced no output
\* file, the run ends in failure with an 'Error: ...' message; equivalently
\* 'Processing complete' is emitted only in runs where every extraction and
\* the concatenation succeeded.
C8_ConcatFailureReported ==
    Done =>
        /\ (\E i \in 1..Len(concat_results) : ProcessFailed(concat_results[i]))
              => (LastStatusIs("error") /\ ~HasStatus("complete"))
        /\ HasStatus("complete") =>
              /\ \A i \in 1..Len(cut_results) : ~ProcessFailed(cut_results[i])
              /\ \A i \in 1..Len(concat_results) : ~ProcessFailed(concat_results[i])

-----------------------------------------------------------------------------
(* C9 *)

\* C9: when compute_keep_segments has returned an empty list (for example the
\* whole clip is one silence), process_video reports the no-segments error
\* through the status sink and is over: no extraction was started, no segment
\* file and no temporary directory was created, and concatenation was never
\* invoked.
C9_NoSegmentsError ==
    (calls > 0 /\ segments = << >>) =>
        /\ Done
        /\ status[Len(status)] = ErrorMsg(NoSegmentsText)
        /\ ~HasStatus("found")
        /\ ~HasStatus("cutting")
        /\ ~HasStatus("concatenating")
        /\ ~HasStatus("complete")
        /\ cut_started = 0
        /\ cut_results = << >>
        /\ segment_files = << >>
        /\ seg_on_disk = {}
        /\ tmpdir = "absent"
        /\ concat_started = 0
        /\ manifest = "absent"
        /\ output = FALSE

\* Witness: the whole clip is one silence (starts = [0], ends = [duration]),
\* compute_keep_segments returned [] and the run is over.
C9_Witness ==
    /\ Done
    /\ calls = 1
    /\ duration > 0
    /\ silence_starts = <<0>>
    /\ silence_ends = <<duration>>
    /\ segments = << >>

-----------------------------------------------------------------------------
(* C10 *)

\* C10: in every terminal state of process_video (success, or a failure raised
\* during an extraction or during concatenation) the temporary directory and
\* every segment file created in it have been removed.
C10_TempDirRemoved ==
    Done => (tmpdir # "exists" /\ seg_on_disk = {})

\* Witness: two segment files were written, then an exception was raised in the
\* extraction of the third segment; the run is over and the directory is gone.
C10_Witness ==
    /\ Done
    /\ tmpdir = "removed"
    /\ Len(cut_results) = 2
    /\ cut_results[1].file
    /\ cut_results[2].file
    /\ Len(segments) = 3
    /\ concat_started = 0
    /\ status[Len(status)] = ErrorMsg(SpawnErrorText)

-----------------------------------------------------------------------------
(* C11 *)

\* C11: once concat_segments_without_crossfade has written the manifest, the
\* manifest no longer exists when the function is left, on every exit path
\* (the concat process exiting zero or non-zero, or its invocation raising):
\* a written manifest exists only while the function is still waiting for the
\* concat process.
C11_ManifestRemovedOnEveryExit ==
    manifest = "written" => pc = "concatenating"

-----------------------------------------------------------------------------
(* C12 *)

\* The stage a control position belongs to.
Stage(p) ==
    CASE p = "probe" -> 1
      [] p = "detect" -> 2
      [] p = "compute" -> 3
      [] p \in {"extract", "cutting"} -> 4
      [] p = "concatenating" -> 5
      [] OTHER -> 6

IsCutting(m) == m.kind = "cutting"

CuttingMessages == SelectSeq(status, IsCutting)

\* The messages of a run that went through every stage with n segments.
FullRunKinds(n) ==
    [k \in 1..(n + 5) |->
        IF k = 1 THEN "duration"
        ELSE IF k = 2 THEN "detecting"
        ELSE IF k = 3 THEN "found"
        ELSE IF k <= n + 3 THEN "cutting"
        ELSE IF k = n + 4 THEN "concatenating"
        ELSE "complete"]

\* What holds of the order in every state of a run.
OrderInvariant ==
    \* one extraction process at a time, started only after the previous exited
    /\ cut_started >= Len(cut_results)
    /\ cut_started <= Len(cut_results) + 1
    /\ (cut_started = Len(cut_results) + 1) <=> (pc = "cutting")
    \* the k-th extraction is that of the k-th keep segment, written to segment_<k-1>
    /\ cut_started <= Len(segments)
    /\ \A k \in 1..Len(CuttingMessages) :
          /\ k <= Len(segments)
          /\ CuttingMessages[k].a = segments[k][1]
          /\ CuttingMessages[k].b = segments[k][2]
    /\ segment_files = [k \in 1..Len(cut_results) |-> k - 1]
    \* concatenation only after all N extractions have finished
    /\ (manifest # "absent" \/ concat_started > 0 \/ HasStatus("concatenating"))
          => (Len(cut_results) = Len(segments) /\ cut_started = Len(segments))
    /\ concat_started <= 1
    \* the manifest lists the N clips in the order of the keep segments
    /\ manifest # "absent" =>
          manifest_list = [k \in 1..Len(segments) |-> k - 1]
    \* a completed run went through every stage once, in order
    /\ HasStatus("complete") =>
          /\ Done
          /\ [k \in 1..Len(status) |-> status[k].kind] = FullRunKinds(Len(segments))

\* C12: in every run the stages occur in the order probe duration, detect
\* silence, compute segments, extract segments, concatenate, done, none skipped
\* or repeated (a step stays in its stage only while extracting, moves to the
\* next stage, or ends the run); segments are extracted one at a time in the
\* order compute_keep_segments produced them, concatenation starts only after
\* all N extractions have finished, and the manifest lists the N clip paths in
\* that order.
C12_StageAndSegmentOrder ==
    /\ []OrderInvariant
    /\ [][\/ Stage(pc') = Stage(pc) + 1
          \/ pc' = "done"
          \/ (Stage(pc) = 4 /\ Stage(pc') = 4)]_vars

\* Witness: a run with three keep segments and a margin has completed.
C12_Witness ==
    /\ Done
    /\ HasStatus("complete")
    /\ Len(segments) = 3
    /\ margin > 0
    /\ manifest_list = <<0, 1, 2>>

-----------------------------------------------------------------------------
(* C13 *)

IsTerminalMessage(m) == m.kind \in {"complete", "error"}

TerminalMessages == SelectSeq(status, IsTerminalMessage)

\* C13: every run of process_video returns normally (a run that is not over
\* can always take a step; no exception leaves process_video) and emits
\* exactly one terminal status message, 'Processing complete...' or 'Error:
\* ...' and never both; that message is the last one the run sends, whatever
\* stage failed, and none is sent before the run is over.
C13_OneTerminalMessageLast ==
    /\ ~Done => (Len(TerminalMessages) = 0 /\ ENABLED Next)
    /\ Done =>
          /\ Len(TerminalMessages) = 1
          /\ IsTerminalMessage(status[Len(status)])

\* Witness: a run that failed in the extraction stage, after one segment was
\* extracted, is over with its error message last.
C13_Witness ==
    /\ Done
    /\ Len(cut_results) = 1
    /\ Len(segments) >= 2
    /\ status[Len(status)] = ErrorMsg(SpawnErrorText)
    /\ status[Len(status) - 1].kind = "cutting"

-----------------------------------------------------------------------------
(* C15 *)

\* The probe printed text that is not a non-negative finite number.
ProbeNotADuration == probe \in {"garbage", "negative", "nan", "inf"}

\* C15: whenever ffprobe's output is not a non-negative finite number (empty
\* or non-numeric text, a negative number, nan, infinity), get_video_duration
\* fails with the probe error, and process_video then reports that failure as
\* its only message and runs no detection, extraction or concatenation.
C15_ProbeRejectsNonDurations ==
    ProbeNotADuration =>
        /\ Done
        /\ status = <<ErrorMsg(ProbeErrorText)>>
        /\ calls = 0
        /\ cut_started = 0
        /\ concat_started = 0

-----------------------------------------------------------------------------
(* C16 *)

\* The list compute_keep_segments builds before its margin step.
MarginFree ==
    MarginFreeSegments(silence_starts, silence_ends, duration, min_segment_length)

\* C16: when margin > 0 the returned list has, for the margin-free list
\* (s_i, e_i), the i-th start max(s_i - margin, 0) except that the first start
\* is s_1, and the i-th end min(e_i + margin, duration) except that the last
\* end is e_n; when margin <= 0 the returned list is the margin-free list.
C16_MarginStep ==
    Returned =>
        IF margin > 0
        THEN /\ Len(segments) = Len(MarginFree)
             /\ \A i \in 1..Len(MarginFree) :
                   /\ segments[i][1] =
                         IF i = 1 THEN MarginFree[i][1]
                         ELSE IF MarginFree[i][1] - margin > 0
                              THEN MarginFree[i][1] - margin ELSE 0
                   /\ segments[i][2] =
                         IF i = Len(MarginFree) THEN MarginFree[i][2]
                         ELSE IF MarginFree[i][2] + margin < duration
                              THEN MarginFree[i][2] + margin ELSE duration
        ELSE segments = MarginFree

\* A call with a negative margin has returned two segments, the margin-free
\* ones.
C16_NegativeMarginReached ==
    /\ Returned
    /\ margin < 0
    /\ Len(segments) = 2
    /\ segments[1][2] < segments[2][1]

\* Witness: a call with a positive margin has returned two or more segments,
\* the second start moved back by the margin.
C16_Witness ==
    /\ Returned
    /\ margin > 0
    /\ Len(segments) >= 2
    /\ segments[2][1] < MarginFree[2][1]

-----------------------------------------------------------------------------
(* C19 *)

\* The k-th non-silent stretch of a valid report, k in 0..n: from the stream
\* start or the end of silence k to the start of silence k + 1 or the stream
\* end.
StretchFrom(k) == IF k = 0 THEN 0 ELSE silence_ends[k]

StretchTo(k) == IF k = Len(silence_starts) THEN duration ELSE silence_starts[k + 1]

SegmentsAsSet == {segments[i] : i \in 1..Len(segments)}

\* C19: with margin = 0 and a valid silence report, no returned interval
\* intersects the interior of a paired silence interval, and every non-silent
\* stretch longer than min_segment_length is returned as a segment.
C19_NoSilenceKeptNoLongStretchLost ==
    (Returned /\ ValidReport /\ margin = 0) =>
        /\ \A i \in 1..Len(segments) : \A j \in 1..Len(silence_starts) :
              ~(segments[i][1] < silence_ends[j] /\ silence_starts[j] < segments[i][2])
        /\ \A k \in 0..Len(silence_starts) :
              StretchTo(k) - StretchFrom(k) > min_segment_length
                  => <<StretchFrom(k), StretchTo(k)>> \in SegmentsAsSet

\* Witness: a valid report with margin 0 has returned the stretch after its
\* last silence, and a stretch before a silence was too short to keep.
C19_Witness ==
    /\ Returned /\ ValidReport
    /\ margin = 0
    /\ Len(silence_starts) >= 1
    /\ \E k \in 0..(Len(silence_starts) - 1) :
          /\ StretchTo(k) > StretchFrom(k)
          /\ <<StretchFrom(k), StretchTo(k)>> \notin SegmentsAsSet
    /\ segments = << <<silence_ends[Len(silence_ends)], duration>> >>

-----------------------------------------------------------------------------
(* C17 *)

\* C17: for every segment with end > start and every requested fade_duration
\* >= 0, the fade f that cut_segment passes to the transcoder satisfies
\* 0 <= f and 2*f <= end - start, the fade-out starts at (end - start) - f >= f
\* (the fade windows do not overlap and stay inside the segment), and f is the
\* requested fade_duration when end - start >= 2 * fade_duration.
C17_FadeFitsSegment ==
    (Len(cut_filter) = 1 /\ cut_args.end > cut_args.start
                          /\ cut_args.fade_duration >= 0) =>
        LET flt == cut_filter[1]
            segment_length == cut_args.end - cut_args.start
        IN  /\ flt.fade_in_d2 >= 0
            /\ flt.fade_out_d2 = flt.fade_in_d2
            /\ flt.fade_in_d2 <= segment_length
            /\ flt.fade_in_st2 = 0
            /\ flt.fade_out_st2 = 2 * segment_length - flt.fade_in_d2
            /\ flt.fade_out_st2 >= flt.fade_in_st2 + flt.fade_in_d2
            /\ flt.fade_out_st2 + flt.fade_out_d2 <= 2 * segment_length
            /\ segment_length >= 2 * cut_args.fade_duration
                  => flt.fade_in_d2 = 2 * cut_args.fade_duration

\* Witness: a segment of 3 ticks cut with a requested fade of 2 ticks got a
\* fade of 1.5 ticks, the fade-out starting where the fade-in ends.
C17_Witness ==
    /\ pc = "cut_returned"
    /\ cut_args.end - cut_args.start = 3
    /\ cut_args.fade_duration = DefaultFadeDuration
    /\ cut_filter[1].fade_in_d2 = 3
    /\ cut_filter[1].fade_out_st2 = 3

-----------------------------------------------------------------------------
(* C18 *)

\* A decimal, signed or unsigned, possibly followed by other text.
IsDecimalPayload(payload) ==
    \/ LeadingDigits(payload) > 0
    \/ /\ payload # << >>
       /\ Head(payload) \in {"-", "+"}
       /\ LeadingDigits(Tail(payload)) > 0

IsMarkerLine(line, marker) == line.marker = marker /\ IsDecimalPayload(line.payload)

RECURSIVE MarkerLineCount(_, _)
MarkerLineCount(text, marker) ==
    IF text = << >> THEN 0
    ELSE MarkerLineCount(Tail(text), marker)
         + (IF IsMarkerLine(Head(text), marker) THEN 1 ELSE 0)

\* C18: for a diagnostic text of marker lines "silence_start: <float>" and
\* "silence_end: <float>" (<float> any decimal, signed or unsigned, the end
\* line possibly with trailing text) interleaved with unrelated lines, the
\* parser returns one start per silence_start marker line and one end per
\* silence_end marker line; other lines and non-numeric payloads add nothing.
C18_OneEntryPerMarkerLine ==
    pc = "parsed" =>
        /\ Len(silence_starts) = MarkerLineCount(stderr_lines, "silence_start")
        /\ Len(silence_ends) = MarkerLineCount(stderr_lines, "silence_end")

-----------------------------------------------------------------------------
(* C14 *)

\* C14: assuming every external process eventually exits, every run started
\* by start_processing (which disables the Run button) is eventually followed
\* by the Run button being enabled again, whether process_video succeeded or
\* failed at any stage; and a click that validation rejects leaves the button
\* enabled and starts no worker.
C14_ButtonReenabledAfterEveryRun ==
    /\ \A i \in 1..MaxRuns :
          (Len(workers) >= i /\ workers[i].phase # "finished")
              ~> (/\ Len(workers) >= i
                  /\ workers[i].phase = "finished"
                  /\ run_button_enabled)
    /\ [][Len(workers') > Len(workers) => ~run_button_enabled']_vars
    /\ [][rejections' > rejections =>
              /\ run_button_enabled /\ run_button_enabled'
              /\ workers' = workers]_vars

\* Witness: after a rejected click, a run that failed in its extraction stage
\* has finished and the Run button is enabled again.
C14_Witness ==
    /\ rejections >= 1
    /\ Len(workers) = 1
    /\ workers[1] = [phase |-> "finished", stage |-> 3, result |-> "error"]
    /\ run_button_enabled
    /\ finished_queue = << >>

-----------------------------------------------------------------------------
(* C20 *)

InProcessVideo(i) == workers[i].phase = "processing"

\* Worker i has been started and its finished signal has not been delivered.
Unfinished(i) == workers[i].phase # "finished"

\* C20: under any interleaving of Run clicks and worker-thread steps, at most
\* one Worker is executing process_video; no second worker exists between
\* start_processing disabling the Run button and the delivery of the current
\* worker's finished signal enabling it; and finished is emitted only after
\* process_video has returned.
C20_AtMostOneWorkerRunning ==
    /\ Cardinality({i \in 1..Len(workers) : InProcessVideo(i)}) <= 1
    /\ Cardinality({i \in 1..Len(workers) : Unfinished(i)}) <= 1
    /\ run_button_enabled <=> \A i \in 1..Len(workers) : ~Unfinished(i)
    /\ \A i \in 1..Len(workers) :
          workers[i].phase \in {"emitted", "finished"}
              => workers[i].result \in {"complete", "error"}
    /\ \A k \in 1..Len(finished_queue) :
          workers[finished_queue[k]].phase = "emitted"

\* Witness: a second worker is inside process_video after the first worker's
\* finished signal was delivered; the Run button is disabled.
C20_Witness ==
    /\ Len(workers) = 2
    /\ workers[1].phase = "finished"
    /\ InProcessVideo(2)
    /\ workers[2].stage = 2
    /\ ~run_button_enabled

====
